---------------------------- MODULE Spec2Model ----------------------------
(***************************************************************************)
(* SnapScalp: the analysis loop of the main process (SnapScalpMain), the   *)
(* provider service (LLMService), the extraction of the JSON payload from  *)
(* a provider response, and the renderer's display of that payload.        *)
(*                                                                         *)
(* Texts are sequences of lexical units: a backtick, a blank, a newline,   *)
(* a punctuation mark, a double quote, or a word (a maximal run of letters *)
(* and digits, such as "json", "decision" or "50").                        *)
(***************************************************************************)
EXTENDS Integers, Sequences, FiniteSets, TLC

(***************************************************************************)
(* Texts                                                                   *)
(***************************************************************************)
\* The backtick character.
BT == "BACKTICK"
QT == "\""
Fence == <<BT, BT, BT>>

\* The units String.prototype.trim and the regular expression's \s remove.
WhiteSpace == {" ", "\n"}

\* The units that are words: JSON's literals and numbers, and plain words.
Literals == {"null", "true", "false"}
Numerals == {"0", "5", "50", "77"}
Words == {"json", "a", "decision", "confidence", "reason", "scenarios", "levels",
          "support", "resistance", "Wait", "Long", "JSON", "parsing", "error"}

Max(a, b) == IF a >= b THEN a ELSE b
Min(a, b) == IF a <= b THEN a ELSE b

\* s.slice(from, to) on 1-based positions from..to (empty when from > to).
Slice(s, from, to) == SubSeq(s, from, to)

RECURSIVE TrimStart(_)
TrimStart(s) ==
    IF s # <<>> /\ Head(s) \in WhiteSpace THEN TrimStart(Tail(s)) ELSE s

RECURSIVE TrimEnd(_)
TrimEnd(s) ==
    IF s # <<>> /\ s[Len(s)] \in WhiteSpace
    THEN TrimEnd(SubSeq(s, 1, Len(s) - 1))
    ELSE s

\* String.prototype.trim
Trim(s) == TrimEnd(TrimStart(s))

\* Whether pat occurs in s at position i.
OccursAt(s, pat, i) ==
    /\ i >= 1
    /\ i + Len(pat) - 1 <= Len(s)
    /\ SubSeq(s, i, i + Len(pat) - 1) = pat

StartsWith(s, pat) == OccursAt(s, pat, 1)
EndsWith(s, pat) == OccursAt(s, pat, Len(s) - Len(pat) + 1)

\* The positions from "from" on at which pat occurs in s.
Occurrences(s, pat, from) == {i \in from..Len(s) : OccursAt(s, pat, i)}

SetMin(S) == CHOOSE x \in S : \A y \in S : x <= y

(***************************************************************************)
(* JSON.parse, on texts.  A value is a record: t its type, a its text (a   *)
(* string's content, a number's or literal's word), keys and kids the      *)
(* member names and the members or elements.                               *)
(***************************************************************************)
Val(t, a, keys, kids) == [t |-> t, a |-> a, keys |-> keys, kids |-> kids]
NoValue == Val("none", <<>>, <<>>, <<>>)
Failed == [ok |-> FALSE, v |-> NoValue, next |-> 0]
Parsed(v, next) == [ok |-> TRUE, v |-> v, next |-> next]

\* The first position from i on that holds no white space (Len(s) + 1 if none).
RECURSIVE SkipWs(_, _)
SkipWs(s, i) ==
    IF i <= Len(s) /\ s[i] \in WhiteSpace THEN SkipWs(s, i + 1) ELSE i

\* A string literal opening at position i: up to the next double quote; a
\* raw newline inside a string literal is a syntax error.
ParseString(s, i) ==
    LET close == {j \in (i + 1)..Len(s) : s[j] = QT}
    IN  IF close = {} THEN Failed
        ELSE LET j == SetMin(close)
                 body == SubSeq(s, i + 1, j - 1)
             IN  IF \E k \in 1..Len(body) : body[k] = "\n" THEN Failed
                 ELSE Parsed(Val("str", body, <<>>, <<>>), j + 1)

RECURSIVE ParseValue(_, _), ParseElements(_, _, _), ParseMembers(_, _, _, _)

\* The value that starts at the first non-blank position from i on.
ParseValue(s, i) ==
    LET j == SkipWs(s, i)
    IN  IF j > Len(s) THEN Failed
        ELSE IF s[j] = QT THEN ParseString(s, j)
        ELSE IF s[j] \in Numerals THEN Parsed(Val("num", <<s[j]>>, <<>>, <<>>), j + 1)
        ELSE IF s[j] \in Literals THEN Parsed(Val("lit", <<s[j]>>, <<>>, <<>>), j + 1)
        ELSE IF s[j] = "[" THEN
            LET k == SkipWs(s, j + 1)
            IN  IF k <= Len(s) /\ s[k] = "]"
                THEN Parsed(Val("arr", <<>>, <<>>, <<>>), k + 1)
                ELSE ParseElements(s, j + 1, <<>>)
        ELSE IF s[j] = "{" THEN
            LET k == SkipWs(s, j + 1)
            IN  IF k <= Len(s) /\ s[k] = "}"
                THEN Parsed(Val("obj", <<>>, <<>>, <<>>), k + 1)
                ELSE ParseMembers(s, j + 1, <<>>, <<>>)
        ELSE Failed

\* The elements of an array from position i on, after those in kids.
ParseElements(s, i, kids) ==
    LET r == ParseValue(s, i)
    IN  IF ~r.ok THEN Failed
        ELSE LET k == SkipWs(s, r.next)
                 all == Append(kids, r.v)
             IN  IF k > Len(s) THEN Failed
                 ELSE IF s[k] = "," THEN ParseElements(s, k + 1, all)
                 ELSE IF s[k] = "]" THEN Parsed(Val("arr", <<>>, <<>>, all), k + 1)
                 ELSE Failed

\* The members of an object from position i on, after those in keys and kids.
ParseMembers(s, i, keys, kids) ==
    LET j == SkipWs(s, i)
    IN  IF j > Len(s) \/ s[j] # QT THEN Failed
        ELSE LET name == ParseString(s, j)
             IN  IF ~name.ok THEN Failed
                 ELSE LET c == SkipWs(s, name.next)
                      IN  IF c > Len(s) \/ s[c] # ":" THEN Failed
                          ELSE LET r == ParseValue(s, c + 1)
                               IN  IF ~r.ok THEN Failed
                                   ELSE LET k == SkipWs(s, r.next)
                                            ks == Append(keys, name.v.a)
                                            vs == Append(kids, r.v)
                                        IN  IF k > Len(s) THEN Failed
                                            ELSE IF s[k] = ","
                                                THEN ParseMembers(s, k + 1, ks, vs)
                                            ELSE IF s[k] = "}"
                                                THEN Parsed(Val("obj", <<>>, ks, vs), k + 1)
                                            ELSE Failed

\* JSON.parse(s): one value, and nothing but white space after it.
JSONParse(s) ==
    LET r == ParseValue(s, 1)
    IN  IF r.ok /\ SkipWs(s, r.next) > Len(s) THEN r ELSE Failed

(***************************************************************************)
(* LLMService.extractJsonFromResponse                                      *)
(***************************************************************************)
Str(w) == <<QT, w, QT>>

\* JSON.stringify of the fallback object with the given reason.
FallbackText(reason) ==
    <<"{">> \o Str("decision") \o <<":">> \o Str("Wait") \o <<",">>
    \o Str("confidence") \o <<":", "50", ",">>
    \o Str("reason") \o <<":", QT>> \o reason \o <<QT, ",">>
    \o Str("scenarios") \o <<":", "[", "]", ",">>
    \o Str("levels") \o <<":", "{">>
    \o Str("support") \o <<":", "[", "]", ",">>
    \o Str("resistance") \o <<":", "[", "]", "}", "}">>

ParsingErrorReason == <<"JSON", " ", "parsing", " ", "error">>

\* cleaned.match(/FENCE json \s* ([\s\S]*?) \s* FENCE/), FENCE being three
\* backticks: the leftmost tagged fence that a later fence closes; group 1,
\* trimmed, is what lies between the tag and the first fence after it.
JsonBlockMatch(cleaned) ==
    LET opens == {i \in Occurrences(cleaned, Fence \o <<"json">>, 1) :
                      Occurrences(cleaned, Fence, i + 4) # {}}
    IN  IF opens = {} THEN [matched |-> FALSE, group |-> <<>>]
        ELSE LET i == SetMin(opens)
                 q == SetMin(Occurrences(cleaned, Fence, i + 4))
             IN  [matched |-> TRUE, group |-> Trim(SubSeq(cleaned, i + 4, q - 1))]

ExtractJsonFromResponse(content) ==
    IF content = <<>> THEN <<"{", "}">>
    ELSE LET trimmed == Trim(content)
             m == JsonBlockMatch(trimmed)
             cleaned == IF m.matched THEN m.group
                        ELSE IF StartsWith(trimmed, Fence) /\ EndsWith(trimmed, Fence)
                            THEN Trim(Slice(trimmed, 4, Len(trimmed) - 3))
                            ELSE trimmed
         IN  IF JSONParse(cleaned).ok THEN cleaned
             ELSE FallbackText(ParsingErrorReason)

(***************************************************************************)
(* The renderer: SnapScalpRenderer.updateResults on the published text.    *)
(* A JavaScript value is a value of JSON.parse, or undefined (NoValue).    *)
(***************************************************************************)
\* The reason shown is cut to this many characters; this many scenarios and
\* levels are kept, and this many target cells make up a row.
ReasonMax == 80
ShownScenarios == 2
ShownLevels == 2
TargetCells == 3

\* The em dash shown for a missing cell.
Dash == "DASH"

StrVal(a) == Val("str", a, <<>>, <<>>)
NumVal(w) == Val("num", <<w>>, <<>>, <<>>)
ArrVal(kids) == Val("arr", <<>>, <<>>, kids)
EmptyObj == Val("obj", <<>>, <<>>, <<>>)

IsNull(v) == v.t = "lit" /\ v.a = <<"null">>

\* ToBoolean(v), as the operator || tests it.
Truthy(v) ==
    CASE v.t = "str" -> v.a # <<>>
      [] v.t = "num" -> v.a # <<"0">>
      [] v.t = "lit" -> v.a = <<"true">>
      [] v.t \in {"arr", "obj"} -> TRUE
      [] OTHER -> FALSE

\* v || d
Or(v, d) == IF Truthy(v) THEN v ELSE d

\* v[name] for a v that is neither null nor undefined: the last member of
\* that name of an object, the element or character at that index of an
\* array or a string, undefined otherwise.
Get(v, name) ==
    LET at == {i \in 1..Len(v.keys) : v.keys[i] = <<name>>}
        index == CASE name = "0" -> 1 [] name = "1" -> 2 [] name = "2" -> 3 [] OTHER -> 0
    IN  IF v.t = "obj" /\ at # {} THEN v.kids[CHOOSE i \in at : \A j \in at : j <= i]
        ELSE IF v.t = "arr" /\ index \in 1..Len(v.kids) THEN v.kids[index]
        ELSE IF v.t = "str" /\ index \in 1..Len(v.a) THEN StrVal(<<v.a[index]>>)
        ELSE NoValue

\* The number a numeral stands for.
NumeralValue(w) ==
    CASE w = "0" -> 0 [] w = "5" -> 5 [] w = "50" -> 50 [] w = "77" -> 77

NaN == [nan |-> TRUE, n |-> 0]
Integer(n) == [nan |-> FALSE, n |-> n]

\* parseInt(v): the integer the text of v starts with, NaN if it starts
\* with none.  An array's text starts with the text of its first element
\* (empty for null), an object's text is "[object Object]".
RECURSIVE ParseInt(_)
ParseInt(v) ==
    CASE v.t = "num" -> Integer(NumeralValue(v.a[1]))
      [] v.t = "str" ->
           LET b == TrimStart(v.a)
           IN  IF b # <<>> /\ Head(b) \in Numerals THEN Integer(NumeralValue(Head(b)))
               ELSE NaN
      [] v.t = "arr" -> IF v.kids = <<>> THEN NaN ELSE ParseInt(v.kids[1])
      [] OTHER -> NaN

\* The number of characters of a unit, and of a text.
CharLen(u) ==
    CASE u \in {"decision"} -> 8
      [] u \in {"confidence", "resistance"} -> 10
      [] u \in {"scenarios", "Text-only"} -> 9
      [] u \in {"support", "parsing", "targets"} -> 7
      [] u \in {"reason", "levels"} -> 6
      [] u \in {"error", "false", "entry"} -> 5
      [] u \in {"json", "Wait", "Long", "JSON", "null", "true", "WAIT", "LONG",
                "side", "stop"} -> 4
      [] u \in {"50", "77"} -> 2
      [] OTHER -> 1

RECURSIVE Chars(_)
Chars(s) == IF s = <<>> THEN 0 ELSE CharLen(Head(s)) + Chars(Tail(s))

\* s.substring(0, n): the whole units of s that lie within the first n
\* characters, and the number of characters kept.
Substring(s, n) ==
    LET fit == {k \in 0..Len(s) : Chars(SubSeq(s, 1, k)) <= n}
        k == CHOOSE x \in fit : \A y \in fit : y <= x
    IN  [text |-> SubSeq(s, 1, k), chars |-> Min(Chars(s), n)]

\* String.prototype.toUpperCase and toLowerCase, unit by unit.
UpperUnit(u) ==
    CASE u = "Long" -> "LONG" [] u = "Wait" -> "WAIT" [] u = "a" -> "A"
      [] u = "json" -> "JSON" [] u = "error" -> "ERROR" [] u = "parsing" -> "PARSING"
      [] u = "reason" -> "REASON" [] u = "decision" -> "DECISION"
      [] u = "null" -> "NULL" [] u = "true" -> "TRUE" [] u = "false" -> "FALSE"
      [] OTHER -> u
LowerUnit(u) ==
    CASE u = "Long" -> "long" [] u = "Wait" -> "wait" [] u = "WAIT" -> "wait"
      [] u = "JSON" -> "json"
      [] OTHER -> u
UpperText(s) == [i \in 1..Len(s) |-> UpperUnit(s[i])]
LowerText(s) == [i \in 1..Len(s) |-> LowerUnit(s[i])]

\* Whether v has a slice method, and v.slice(0, n): an array's first n
\* elements, a string's first n characters.
HasSlice(v) == v.t \in {"arr", "str"}
\* SliceOf that keeps everything.
SliceAll(v, n) == v
SliceOf(v, n) ==
    IF v.t = "arr" THEN ArrVal(SubSeq(v.kids, 1, Min(n, Len(v.kids))))
    ELSE StrVal(SubSeq(v.a, 1, Min(n, Len(v.a))))

\* The cells t1, t2, t3 of a row: targets[i] || DASH.
TargetCellsOf(targets) ==
    LET name(i) == CASE i = 1 -> "0" [] i = 2 -> "1" [] OTHER -> "2"
    IN  [i \in 1..TargetCells |-> Or(Get(targets, name(i)), StrVal(<<Dash>>))]

\* updateScenariosTable: the rows appended for the scenarios of list after
\* those of acc, and whether the loop threw: on a null scenario, or on a
\* side that has no toLowerCase.
RECURSIVE Rows(_, _)
Rows(list, acc) ==
    IF list = <<>> THEN [threw |-> FALSE, rows |-> acc]
    ELSE LET scenario == Head(list)
         IN  IF IsNull(scenario) THEN [threw |-> TRUE, rows |-> acc]
             ELSE LET side == Or(Get(scenario, "side"), StrVal(<<>>))
                      row == [side |-> side,
                              entry |-> Or(Get(scenario, "entry"), StrVal(<<>>)),
                              stop |-> Or(Get(scenario, "stop"), StrVal(<<>>)),
                              targets |-> TargetCellsOf(
                                  Or(Get(scenario, "targets"), ArrVal(<<>>)))]
                  IN  IF side.t # "str" THEN [threw |-> TRUE, rows |-> acc]
                      ELSE Rows(Tail(list), Append(acc, row))

\* What the renderer shows before a first result.
InitialView ==
    [state |-> "none", decision |-> <<>>, confidence |-> Integer(0),
     reason |-> [text |-> <<>>, chars |-> 0], banner |-> "none",
     rows |-> <<>>, support |-> <<>>, resistance |-> <<>>]

\* updateResults(analysisText) on the view v0.  A throw anywhere ends in the
\* catch, which sets the status 'Parse error' and keeps what was set so far.
UpdateResults(v0, analysisText) ==
    LET p == JSONParse(analysisText)
        err(v) == [v EXCEPT !.state = "error"]
    IN  IF ~p.ok \/ IsNull(p.v) THEN err(v0)
        ELSE
        LET data == p.v
            decision == Or(Get(data, "decision"), StrVal(<<"WAIT">>))
            confidence == ParseInt(Or(Get(data, "confidence"), NumVal("0")))
            reason == Or(Get(data, "reason"), StrVal(<<>>))
            scenarios == Or(Get(data, "scenarios"), ArrVal(<<>>))
            levels == Or(Get(data, "levels"), EmptyObj)
        IN  IF reason.t # "str" \/ ~HasSlice(scenarios) \/ decision.t # "str"
            THEN err(v0)
            ELSE
            LET lower == LowerText(decision.a)
                v1 == [v0 EXCEPT !.decision = UpperText(decision.a),
                                 !.confidence = confidence,
                                 !.reason = Substring(reason.a, ReasonMax),
                                 !.banner = IF lower = <<"long">> THEN "long"
                                            ELSE IF lower = <<"short">> THEN "short"
                                            ELSE "wait"]
                shown == SliceOf(scenarios, ShownScenarios)
                r == Rows(shown.kids, <<>>)
                v2 == [v1 EXCEPT !.rows = IF shown.t = "arr" THEN r.rows ELSE <<>>]
                support == Or(Get(levels, "support"), ArrVal(<<>>))
                resistance == Or(Get(levels, "resistance"), ArrVal(<<>>))
            IN  IF shown.t # "arr" \/ r.threw THEN err(v2)
                ELSE IF support.t # "arr" \/ resistance.t # "arr" THEN err(v2)
                ELSE [v2 EXCEPT !.support = SliceOf(support, ShownLevels).kids,
                                !.resistance = SliceOf(resistance, ShownLevels).kids,
                                !.state = "ok"]

(***************************************************************************)
(* The main process: configuration, analysis loop and provider service     *)
(***************************************************************************)
\* Bounds of the model.
MaxTimers == 3
MaxInFlight == 2
MaxStarts == 2

\* setTimeout(..., 2000) and setInterval(..., 30000), in milliseconds.
ProbeDelayMs == 2000
IntervalMs == 30000
\* Time advances in steps of half the probe delay while a probe is pending.
TickMs == ProbeDelayMs \div 2

Providers == {"openai", "claude", "perplexity"}
\* The ids a caller may pass: the providers, in another letter case, or unknown.
ProviderIds == Providers \cup {"gemini"}
SwitchInputs == ProviderIds \cup {"Claude"}
\* String.prototype.toLowerCase on the ids above.
ToLowerCase(id) == IF id = "Claude" THEN "claude" ELSE id

Regions == {"r1"}
NoArea == "null"
NoModel == "null"
NoTimer == 0

\* The raw texts a provider replies with in the loop.
GoodObject == <<"{">> \o Str("decision") \o <<":">> \o Str("Long") \o <<"}">>
ReplyTexts == {Fence \o <<"json", "\n">> \o GoodObject \o <<"\n">> \o Fence,
               <<"a">>}

VARIABLES
    apiKeys,          \* config.apiKeys, and LLMService.apiKeys: provider -> key present
    provider,         \* config.provider
    captureArea,      \* SnapScalpMain.captureArea
    isAnalyzing,      \* SnapScalpMain.isAnalyzing
    analysisInterval, \* SnapScalpMain.analysisInterval: a timer id or NoTimer
    timers,           \* the scheduled timers: [id, kind, left]
    currentProvider,  \* LLMService.currentProvider
    model,            \* LLMService.model: the provider it was built for, or NoModel
    cycles,           \* the cycles in flight, in the order they began
    out,              \* what the last step sent to the renderer
    last,             \* the last step and its result
    starts,           \* the number of successful start() calls so far
    sinceRestart,     \* ms (up to ProbeDelayMs) since the start() that directly
                      \* followed a stop(), no cycle having begun since; else -1
    inner,            \* a text, and
    wrap,             \* how it is wrapped to make up
    content,          \* the raw text given to the response extraction
    cleaned,          \* what the extraction returned for it
    done,             \* whether the extraction has run
    imageBase64,      \* the image given to LLMService.analyzeChart with content
    path,             \* the branch of analyzeChart that made cleaned, or "none"
    view              \* what the renderer shows

loopVars == <<apiKeys, provider, captureArea, isAnalyzing, analysisInterval, timers,
              currentProvider, model, cycles, out, last, starts, sinceRestart>>
textVars == <<inner, wrap, content, cleaned, done, imageBase64, path, view>>
vars == <<apiKeys, provider, captureArea, isAnalyzing, analysisInterval, timers,
          currentProvider, model, cycles, out, last, starts, sinceRestart,
          inner, wrap, content, cleaned, done, imageBase64, path, view>>

\* The test of analyzeChart for the providers that take an image.
HasVision(p) == p \in {"openai", "claude"}

\* config.apiKeys[p] is a non-empty string.
HasKey(p) == p \in Providers /\ apiKeys[p]

\* webContents.send('status-update', text)
Status(text) == [ch |-> "status-update", text |-> text, analysis |-> <<>>, image |-> NoArea]
\* webContents.send('analysis-result', analysis, image)
Result(analysis, image) ==
    [ch |-> "analysis-result", text |-> "", analysis |-> analysis, image |-> image]

\* model.invoke([message]) on the client built for provider id client; the
\* image is part of the message on the vision branch only.
Request(client, image) ==
    [ch |-> "invoke", text |-> client, analysis |-> <<>>, image |-> image]

\* The status texts of a cycle.  The probe's and the recurring callback's
\* differ by the word "immediate" only, which is left out.
StatusText(what) ==
    CASE what = "capturing" -> "Capturing"
      [] what = "analyzing" -> "Analyzing"
      [] what = "updated" -> "Updated"
      [] what = "captureFailed" -> "Capture failed"
      [] OTHER -> "Analysis error"

Did(op, ok, err) == [op |-> op, ok |-> ok, err |-> err]

\* LLMService.setupProvider for provider id cur: the model it leaves, or the
\* error it throws, leaving the model m as it was.
SetupProvider(cur, m) ==
    IF cur \in Providers
    THEN IF apiKeys[cur]
         THEN [ok |-> TRUE, model |-> cur, err |-> ""]
         ELSE [ok |-> FALSE, model |-> m, err |-> "API key not configured"]
    ELSE [ok |-> FALSE, model |-> m, err |-> "Unsupported LLM provider"]

\* The constructor: loadConfiguration, with LLMService.initialize inside a try.
LoopInit ==
    /\ apiKeys \in [Providers -> BOOLEAN]
    /\ provider = "openai"
    /\ captureArea = NoArea
    /\ isAnalyzing = FALSE
    /\ analysisInterval = NoTimer
    /\ timers = {}
    /\ currentProvider = "openai"
    /\ model = SetupProvider("openai", NoModel).model
    /\ cycles = <<>>
    /\ out = <<>>
    /\ last = Did("init", TRUE, "")
    /\ starts = 0
    /\ sinceRestart = -1

Init ==
    /\ LoopInit
    /\ inner = <<>>
    /\ wrap = "none"
    /\ content = <<>>
    /\ cleaned = <<>>
    /\ done = FALSE
    /\ imageBase64 = NoArea
    /\ path = "none"
    /\ view = InitialView

FreeTimerIds == (1..MaxTimers) \ {t.id : t \in timers}

\* StartError without the capture-area check.
StartErrorKeyOnly ==
    IF ~HasKey(provider) THEN "Missing API key" ELSE ""

\* The error startAnalysis throws before it changes anything, "" if none.
StartError ==
    IF ~HasKey(provider) THEN "Missing API key"
    ELSE IF captureArea = NoArea THEN "No capture area set"
    ELSE ""

\* StartThrows with the running flag set before the checks.
StartThrowsLate(err) ==
    /\ last' = Did("start", FALSE, err)
    /\ isAnalyzing' = TRUE
    /\ UNCHANGED <<analysisInterval, timers, starts, sinceRestart>>

\* startAnalysis throws err: the handler's promise rejects.
StartThrows(err) ==
    /\ last' = Did("start", FALSE, err)
    /\ UNCHANGED <<isAnalyzing, analysisInterval, timers, starts, sinceRestart>>

\* SnapScalpMain.startAnalysis, as ipcMain.handle('start-analysis') calls it.
StartAnalysis ==
    /\ UNCHANGED <<apiKeys, provider, captureArea, currentProvider, model, cycles>>
    /\ out' = <<>>
    /\ IF StartError # ""
       THEN StartThrows(StartError)
       ELSE /\ Cardinality(timers) + 2 <= MaxTimers
            /\ starts < MaxStarts
            /\ starts' = starts + 1
            /\ LET p == SetMin(FreeTimerIds)
                   q == SetMin(FreeTimerIds \ {p})
               IN  /\ timers' = timers \cup
                          {[id |-> p, kind |-> "probe", left |-> ProbeDelayMs],
                           [id |-> q, kind |-> "interval", left |-> IntervalMs]}
                   /\ analysisInterval' = q
            /\ isAnalyzing' = TRUE
            /\ last' = Did("start", TRUE, "")
            /\ sinceRestart' = IF last.op = "stop" THEN 0 ELSE sinceRestart

\* SnapScalpMain.stopAnalysis
StopAnalysis ==
    /\ isAnalyzing' = FALSE
    /\ timers' = {t \in timers : t.id # analysisInterval}
    /\ analysisInterval' = NoTimer
    /\ out' = <<>>
    /\ last' = Did("stop", TRUE, "")
    /\ sinceRestart' = -1
    /\ UNCHANGED <<apiKeys, provider, captureArea, currentProvider, model, cycles, starts>>

\* ipcMain.handle('switch-llm-provider'), with LLMService.switchProvider
SwitchLlmProvider(input) ==
    LET id == ToLowerCase(input)
        setup == SetupProvider(id, model)
    IN  /\ provider' = id
        /\ IF id # currentProvider
           THEN /\ currentProvider' = id
                /\ model' = setup.model
                /\ last' = Did("switch", setup.ok, setup.err)
           ELSE /\ UNCHANGED <<currentProvider, model>>
                /\ last' = Did("switch", TRUE, "")
        /\ out' = <<>>
        /\ UNCHANGED <<apiKeys, captureArea, isAnalyzing, analysisInterval, timers,
                       cycles, starts, sinceRestart>>

\* The 'area-selected' listener of selectArea.
AreaSelected(area) ==
    /\ captureArea' = area
    /\ out' = <<>>
    /\ last' = Did("area", TRUE, "")
    /\ UNCHANGED <<apiKeys, provider, isAnalyzing, analysisInterval, timers,
                   currentProvider, model, cycles, starts, sinceRestart>>

\* The 'area-cancelled' listener of selectArea.
AreaCancelled ==
    /\ out' = <<>>
    /\ last' = Did("area", FALSE, "")
    /\ UNCHANGED <<apiKeys, provider, captureArea, isAnalyzing, analysisInterval,
                   timers, currentProvider, model, cycles, starts, sinceRestart>>

\* Time passes: up to the next deadline, no timer being due.
Tick ==
    /\ timers # {}
    /\ \A t \in timers : t.left > 0
    /\ LET next == SetMin({t.left : t \in timers})
           d == IF \E t \in timers : t.kind = "probe" THEN Min(TickMs, next) ELSE next
       IN  /\ timers' = {[t EXCEPT !.left = t.left - d] : t \in timers}
           /\ sinceRestart' = IF sinceRestart >= 0
                              THEN Min(sinceRestart + d, ProbeDelayMs)
                              ELSE sinceRestart
    /\ out' = <<>>
    /\ last' = Did("tick", TRUE, "")
    /\ UNCHANGED <<apiKeys, provider, captureArea, isAnalyzing, analysisInterval,
                   currentProvider, model, cycles, starts>>

\* BeginCycle without the running check.
BeginCycleUnchecked(kind) ==
    IF captureArea = NoArea
    THEN /\ out' = <<Status(StatusText("capturing")), Status(StatusText("error"))>>
         /\ last' = Did(kind, TRUE, "No capture area set")
         /\ sinceRestart' = -1
         /\ UNCHANGED cycles
    ELSE /\ Len(cycles) < MaxInFlight
         /\ out' = <<Status(StatusText("capturing"))>>
         /\ cycles' = Append(cycles, [pc |-> "capture", began |-> model,
                                      vision |-> FALSE, image |-> NoArea])
         /\ last' = Did(kind, TRUE, "")
         /\ sinceRestart' = -1

\* The start of a timer callback, up to its first await: the running check,
\* the 'capturing' status and the synchronous part of captureScreenshot.
BeginCycle(kind) ==
    IF ~isAnalyzing
    THEN /\ out' = <<>>
         /\ last' = Did(kind, FALSE, "")
         /\ UNCHANGED <<cycles, sinceRestart>>
    ELSE IF captureArea = NoArea
    THEN /\ out' = <<Status(StatusText("capturing")), Status(StatusText("error"))>>
         /\ last' = Did(kind, TRUE, "No capture area set")
         /\ sinceRestart' = -1
         /\ UNCHANGED cycles
    ELSE /\ Len(cycles) < MaxInFlight
         /\ out' = <<Status(StatusText("capturing"))>>
         /\ cycles' = Append(cycles, [pc |-> "capture", began |-> model,
                                      vision |-> FALSE, image |-> NoArea])
         /\ last' = Did(kind, TRUE, "")
         /\ sinceRestart' = -1

\* The setTimeout callback of startAnalysis fires.
FireProbe(t) ==
    /\ t.kind = "probe" /\ t.left = 0
    /\ timers' = timers \ {t}
    /\ BeginCycle("probe")
    /\ UNCHANGED <<apiKeys, provider, captureArea, isAnalyzing, analysisInterval,
                   currentProvider, model, starts>>

\* The setInterval callback of startAnalysis fires, and is due again a period later.
FireInterval(t) ==
    /\ t.kind = "interval" /\ t.left = 0
    /\ timers' = (timers \ {t}) \cup {[t EXCEPT !.left = IntervalMs]}
    /\ BeginCycle("interval")
    /\ UNCHANGED <<apiKeys, provider, captureArea, isAnalyzing, analysisInterval,
                   currentProvider, model, starts>>

\* CycleError with the loop stopped by the failure.
CycleErrorStops ==
    /\ out' = <<Status(StatusText("error"))>>
    /\ isAnalyzing' = FALSE
    /\ UNCHANGED <<analysisInterval, timers>>

\* The catch of a timer callback: a status, and nothing else.
CycleError ==
    /\ out' = <<Status(StatusText("error"))>>
    /\ UNCHANGED <<isAnalyzing, analysisInterval, timers>>

Without(seq, i) == SubSeq(seq, 1, i - 1) \o SubSeq(seq, i + 1, Len(seq))

\* CaptureDone that goes on to the provider whatever the capture returned.
CaptureDoneIgnoresFailure(i, success) ==
    /\ cycles[i].pc = "capture"
    /\ model # NoModel
    /\ out' = <<Status(StatusText("analyzing")),
                Request(model, IF HasVision(currentProvider) THEN captureArea ELSE NoArea)>>
    /\ cycles' = [cycles EXCEPT ![i] =
                     [pc |-> "invoke", began |-> NoModel,
                      vision |-> HasVision(currentProvider), image |-> captureArea]]
    /\ last' = Did("capture", success, IF success THEN "" ELSE "capture failed")
    /\ UNCHANGED <<apiKeys, provider, captureArea, isAnalyzing, analysisInterval,
                   timers, currentProvider, model, starts, sinceRestart>>

\* captureScreenshot returns to the cycle at position i; on success the cycle
\* goes on to the synchronous part of analyzeChart, up to model.invoke.
CaptureDone(i, success) ==
    LET c == cycles[i]
    IN  /\ c.pc = "capture"
        /\ IF ~success
           THEN /\ out' = <<Status(StatusText("captureFailed"))>>
                /\ cycles' = Without(cycles, i)
                /\ last' = Did("capture", FALSE, "capture failed")
           ELSE IF model = NoModel
           THEN /\ out' = <<Status(StatusText("analyzing")),
                            Status(StatusText("error"))>>
                /\ cycles' = Without(cycles, i)
                /\ last' = Did("capture", FALSE, "LLM service not initialized")
           ELSE /\ out' = <<Status(StatusText("analyzing")),
                            Request(model, IF HasVision(currentProvider)
                                           THEN captureArea ELSE NoArea)>>
                /\ cycles' = [cycles EXCEPT ![i] =
                                 [pc |-> "invoke", began |-> NoModel,
                                  vision |-> HasVision(currentProvider),
                                  image |-> captureArea]]
                /\ last' = Did("capture", TRUE, "")
        /\ UNCHANGED <<apiKeys, provider, captureArea, isAnalyzing, analysisInterval,
                       timers, currentProvider, model, starts, sinceRestart>>

\* AnalysisOf with the reply extracted on the text-only branch too.
AnalysisOfReply(vision, raw) == ExtractJsonFromResponse(raw)

\* The text LLMService.analyzeChart returns once the provider has replied with
\* raw, on the vision branch or on the text-only branch.
AnalysisOf(vision, raw) ==
    IF vision
    THEN ExtractJsonFromResponse(raw)
    ELSE FallbackText(<<"Text-only">>)

\* ProviderDone with the completion status sent before the result.
ProviderDoneStatusFirst(i, success, raw) ==
    /\ cycles[i].pc = "invoke"
    /\ out' = <<Status(StatusText("updated")),
                Result(AnalysisOf(cycles[i].vision, raw), cycles[i].image)>>
    /\ last' = Did("provider", TRUE, "")
    /\ cycles' = Without(cycles, i)
    /\ UNCHANGED <<apiKeys, provider, captureArea, isAnalyzing, analysisInterval,
                   timers, currentProvider, model, starts, sinceRestart>>

\* ProviderDone with a running check before the publish.
ProviderDoneChecked(i, success, raw) ==
    /\ cycles[i].pc = "invoke"
    /\ out' = IF isAnalyzing
              THEN <<Result(AnalysisOf(cycles[i].vision, raw), cycles[i].image),
                     Status(StatusText("updated"))>>
              ELSE <<>>
    /\ last' = Did("provider", TRUE, "")
    /\ cycles' = Without(cycles, i)
    /\ UNCHANGED <<apiKeys, provider, captureArea, isAnalyzing, analysisInterval,
                   timers, currentProvider, model, starts, sinceRestart>>

\* model.invoke returns to the cycle at position i, or throws.
ProviderDone(i, success, raw) ==
    LET c == cycles[i]
    IN  /\ c.pc = "invoke"
        /\ IF success
           THEN /\ out' = <<Result(AnalysisOf(c.vision, raw), c.image),
                            Status(StatusText("updated"))>>
                /\ last' = Did("provider", TRUE, "")
                /\ UNCHANGED <<isAnalyzing, analysisInterval, timers>>
           ELSE /\ CycleError
                /\ last' = Did("provider", FALSE, "Analysis failed")
        /\ cycles' = Without(cycles, i)
        /\ UNCHANGED <<apiKeys, provider, captureArea, currentProvider, model, starts,
                       sinceRestart>>

Next ==
    \/ StartAnalysis /\ UNCHANGED textVars
    \/ StopAnalysis /\ UNCHANGED textVars
    \/ \E input \in SwitchInputs : SwitchLlmProvider(input) /\ UNCHANGED textVars
    \/ \E area \in Regions : AreaSelected(area) /\ UNCHANGED textVars
    \/ AreaCancelled /\ UNCHANGED textVars
    \/ Tick /\ UNCHANGED textVars
    \/ \E t \in timers : FireProbe(t) /\ UNCHANGED textVars
    \/ \E t \in timers : FireInterval(t) /\ UNCHANGED textVars
    \/ \E i \in 1..Len(cycles), success \in BOOLEAN :
           CaptureDone(i, success) /\ UNCHANGED textVars
    \/ \E i \in 1..Len(cycles), success \in BOOLEAN, raw \in ReplyTexts :
           ProviderDone(i, success, raw) /\ UNCHANGED textVars

Spec == Init /\ [][Next]_vars

(***************************************************************************)
(* The response extraction on its own: every raw text of a bounded set is  *)
(* given to extractJsonFromResponse.                                       *)
(***************************************************************************)
MaxStrLen == 3

\* The units a string literal of the inputs is made of.
StrUnits == {"a", BT}
StrBodies == UNION {[1..n -> StrUnits] : n \in 0..MaxStrLen}

Member(key, valueText) == Str(key) \o <<":">> \o valueText
Object1(m) == <<"{">> \o m \o <<"}">>
Object2(m, n) == <<"{">> \o m \o <<",">> \o n \o <<"}">>

\* Valid JSON texts: objects, and values that are no object.
ObjectTexts ==
    {Object1(Member("reason", <<QT>> \o b \o <<QT>>)) : b \in StrBodies}
    \cup {Object2(Member("decision", Str(d)), Member("confidence", <<n>>)) :
              d \in {"Long", "Wait"}, n \in {"77", "0"}}
    \cup {<<"{", "}">>, <<"{", " ", "}">>, FallbackText(ParsingErrorReason)}
OtherValueTexts == {<<"null">>, <<"50">>, <<"[", "]">>, Str("a")}
\* Texts JSON.parse rejects.
MalformedTexts == {<<>>, <<"a">>, <<"{">>, <<"{", QT, "a", QT, "}">>,
                   <<"{", "}", "a">>, <<" ">>, <<"[", "5", ",", "]">>}

\* Payloads of several shapes: up to MaxScenarios scenarios of up to
\* MaxTargets targets each, up to MaxLevels levels of either kind, reasons
\* around ReasonMax characters long, and decision and confidence fields
\* that are absent, in contract, or of another word or type.
MaxScenarios == 3
MaxTargets == 4
MaxLevels == 3
MaxOver == 1

RECURSIVE Join(_)
Join(items) ==
    IF items = <<>> THEN <<>>
    ELSE IF Len(items) = 1 THEN items[1]
    ELSE items[1] \o <<",">> \o Join(Tail(items))
ArrayText(items) == <<"[">> \o Join(items) \o <<"]">>
ObjectText(members) == <<"{">> \o Join(members) \o <<"}">>
Repeat(x, n) == [i \in 1..n |-> x]

ScenarioText(n) ==
    ObjectText(<<Member("side", Str("Long")),
                 Member("targets", ArrayText(Repeat(<<"5">>, n)))>>)
LevelsText(sup, res) ==
    ObjectText(<<Member("support", ArrayText(Repeat(<<"5">>, sup))),
                 Member("resistance", ArrayText(Repeat(<<"77">>, res)))>>)
ShapeTexts ==
    {ObjectText(<<Member("decision", Str("Long")),
                  Member("reason", <<QT>> \o Repeat("a", len) \o <<QT>>),
                  Member("scenarios", ArrayText(Repeat(ScenarioText(n), k))),
                  Member("levels", LevelsText(sup, res))>>) :
         len \in {1, ReasonMax + MaxOver},
         k \in 0..MaxScenarios, n \in 0..MaxTargets,
         sup \in 0..MaxLevels, res \in 0..MaxLevels}
ReasonTexts ==
    {Object1(Member("reason", <<QT>> \o Repeat("a", n) \o <<QT>>)) :
         n \in {0, ReasonMax - 1} \cup (ReasonMax..(ReasonMax + MaxOver))}
DecisionMembers ==
    {<<>>} \cup {<<Member("decision", v)>> :
                     v \in {Str("Long"), Str("Wait"), Str("a"), <<QT, QT>>,
                            <<"5">>, <<"null">>}}
ConfidenceMembers ==
    {<<>>} \cup {<<Member("confidence", v)>> :
                     v \in {<<"77">>, <<"0">>, Str("50"), Str("a"), <<"true">>,
                            <<"null">>, <<"[", "]">>}}
FieldTexts == {ObjectText(d \o c) : d \in DecisionMembers, c \in ConfidenceMembers}
OddTexts ==
    {Object1(Member("scenarios", Str("a"))), Object1(Member("scenarios", <<"5">>)),
     Object1(Member("scenarios", <<"[", "null", "]">>)),
     Object1(Member("levels", Object1(Member("support", <<"5">>)))),
     Object1(Member("reason", <<"5">>))}
PayloadTexts == ShapeTexts \cup ReasonTexts \cup FieldTexts \cup OddTexts

InnerTexts == ObjectTexts \cup OtherValueTexts \cup MalformedTexts \cup PayloadTexts

\* The images a cycle may have captured.
Images == {"imgA", "imgB"}

Wraps == {"none", "tagged", "taggedTight", "untagged", "untaggedTight"}
\* The raw text: x alone, or in a fenced block, tagged json or not, with or
\* without line breaks inside the fence.
Wrapped(w, x) ==
    CASE w = "tagged" -> Fence \o <<"json", "\n">> \o x \o <<"\n">> \o Fence
      [] w = "taggedTight" -> Fence \o <<"json", " ">> \o x \o Fence
      [] w = "untagged" -> Fence \o <<"\n">> \o x \o <<"\n">> \o Fence
      [] w = "untaggedTight" -> Fence \o x \o Fence
      [] OTHER -> x

TextInit ==
    /\ LoopInit
    /\ apiKeys = [p \in Providers |-> TRUE]
    /\ inner \in InnerTexts
    /\ wrap \in Wraps
    /\ content = Wrapped(wrap, inner)
    /\ cleaned = <<>>
    /\ done = FALSE
    /\ imageBase64 \in Images
    /\ path = "none"
    /\ view = InitialView

\* LLMService.analyzeChart hands response.content to the extraction.
Extract ==
    /\ ~done
    /\ cleaned' = ExtractJsonFromResponse(content)
    /\ done' = TRUE
    /\ path' = "vision"
    /\ UNCHANGED <<inner, wrap, content, imageBase64, view>>
    /\ UNCHANGED loopVars

\* LLMService.analyzeChart on its text-only branch, the provider having
\* replied with content.
AnalyzeTextOnly ==
    /\ ~done
    /\ cleaned' = AnalysisOf(FALSE, content)
    /\ done' = TRUE
    /\ path' = "text"
    /\ UNCHANGED <<inner, wrap, content, imageBase64, view>>
    /\ UNCHANGED loopVars

\* The renderer's 'analysis-result' listener: updateResults(analysisText).
ShowResult ==
    /\ done
    /\ view.state = "none"
    /\ view' = UpdateResults(view, cleaned)
    /\ UNCHANGED <<inner, wrap, content, cleaned, done, imageBase64, path>>
    /\ UNCHANGED loopVars

TextNext == Extract \/ AnalyzeTextOnly \/ ShowResult

TextSpec == TextInit /\ [][TextNext]_vars

\* The event loop runs a timer that is due, time passes, and every capture and
\* every provider call settles.
LiveSpec ==
    /\ Spec
    /\ WF_vars(Tick /\ UNCHANGED textVars)
    /\ WF_vars(\E t \in timers : (FireProbe(t) \/ FireInterval(t)) /\ UNCHANGED textVars)
    /\ WF_vars(\E i \in 1..Len(cycles), success \in BOOLEAN :
                   CaptureDone(i, success) /\ UNCHANGED textVars)
    /\ WF_vars(\E i \in 1..Len(cycles), success \in BOOLEAN, raw \in ReplyTexts :
                   ProviderDone(i, success, raw) /\ UNCHANGED textVars)

(***************************************************************************)
(* Properties                                                              *)
(***************************************************************************)
TimerFired == last.op \in {"probe", "interval"}
CycleFailed == last.op \in {"capture", "provider"} /\ ~last.ok
IntervalTimers == {t \in timers : t.kind = "interval"}

\* C1: start() fails whenever no region is set, fails whenever the active
\* provider has no credential, and succeeds, the loop then Running, exactly
\* when both a region and a credential for the active provider are present.
StartOutcome ==
    last.op = "start" =>
        /\ last.ok <=> (captureArea # NoArea /\ HasKey(provider))
        /\ last.ok => isAnalyzing
        /\ captureArea = NoArea => ~last.ok
        /\ ~HasKey(provider) => ~last.ok

StartSucceeded ==
    /\ last.op = "start" /\ last.ok
    /\ isAnalyzing /\ captureArea # NoArea /\ HasKey(provider)

\* C2: a start() that fails a precondition leaves the running flag, the
\* region, the provider id and the scheduled timers as they were.
FailedStartChangesNothing ==
    [][(last'.op = "start" /\ ~last'.ok) =>
           UNCHANGED <<isAnalyzing, captureArea, provider, timers, analysisInterval>>]_vars

FailedStartWhileRunning ==
    last.op = "start" /\ ~last.ok /\ isAnalyzing /\ timers # {}

\* C3: at most one capture/analyze cycle is in flight in every reachable state.
OneCycleInFlight == Len(cycles) <= 1

\* C4: after stop() returns no recurring timer of an earlier start() is
\* still scheduled.
NoIntervalAfterStop == last.op = "stop" => IntervalTimers = {}

\* C5: the first cycle to begin after a start() that directly followed a
\* stop() begins no earlier than the probe delay after that start().
RestartWaitsProbeDelay ==
    [][(sinceRestart >= 0 /\ last'.op \in {"probe", "interval"} /\ last'.ok) =>
           sinceRestart >= ProbeDelayMs]_vars

\* C6: a probe or recurring timer callback that fires while the loop is Idle
\* sends no status, starts no capture, invokes no provider and publishes nothing.
IdleCallbackSkipped ==
    [][(last'.op \in {"probe", "interval"} /\ ~isAnalyzing) =>
           (out' = <<>> /\ cycles' = cycles /\ ~last'.ok)]_vars

IdleCallbackFired == TimerFired /\ ~isAnalyzing /\ out = <<>>

\* C7: a cycle that ends in a capture failure or a provider error leaves the
\* running flag and the schedule as they were, the recurring timer of a
\* Running loop in place, after a start() that succeeded; and unless the loop
\* is stopped a further cycle eventually begins.
FailedCycleKeepsLoop ==
    /\ [][(last'.op \in {"capture", "provider"} /\ ~last'.ok) =>
              /\ UNCHANGED <<isAnalyzing, analysisInterval, timers>>
              /\ isAnalyzing => \E t \in IntervalTimers : t.id = analysisInterval
              /\ starts >= 1]_vars
    /\ (CycleFailed /\ isAnalyzing) ~> (~isAnalyzing \/ (TimerFired /\ last.ok))

CycleFailedWhileRunning ==
    /\ CycleFailed /\ isAnalyzing
    /\ \E t \in IntervalTimers : t.id = analysisInterval

\* C8: every cycle sends its analysis request to the provider that was active
\* when the cycle began.
RequestToProviderAtBegin ==
    [][\A i \in 1..Len(cycles) :
           (/\ Len(cycles') = Len(cycles)
            /\ cycles[i].pc = "capture"
            /\ cycles'[i].pc = "invoke") => cycles[i].began = model]_vars

\* C9: switchProvider(id) returns a failure result whenever no key is
\* configured for id.
SwitchFailsWithoutKey ==
    (last.op = "switch" /\ ~HasKey(provider)) => ~last.ok

\* C10: for a fenced code block, tagged json or untagged, around a valid JSON
\* object, the text the extraction returns parses to what the inner text
\* parses to.
FencedEqualsInner ==
    (done /\ path = "vision" /\ wrap # "none" /\ inner \in ObjectTexts) =>
        JSONParse(cleaned) = JSONParse(inner)

\* Whether a payload is the fallback one: decision Wait, confidence 50, no
\* scenarios, empty level lists.
IsFallbackPayload(v) ==
    /\ v.t = "obj"
    /\ Get(v, "decision") = StrVal(<<"Wait">>)
    /\ Get(v, "confidence") = NumVal("50")
    /\ Get(v, "scenarios") = ArrVal(<<>>)
    /\ Get(Get(v, "levels"), "support") = ArrVal(<<>>)
    /\ Get(Get(v, "levels"), "resistance") = ArrVal(<<>>)

\* C11: for a raw text that is malformed, empty, or a valid value that is no
\* object, the extraction returns the fallback payload.
MalformedGivesFallback ==
    (done /\ path = "vision" /\ wrap = "none"
          /\ inner \in OtherValueTexts \cup MalformedTexts) =>
        IsFallbackPayload(JSONParse(cleaned).v)

\* C12: what is shown has at most 2 scenario rows of at most 3 targets each,
\* at most 2 support and 2 resistance levels, and a reason of at most 80
\* characters.
ShownWithinLimits ==
    /\ Len(view.rows) <= 2
    /\ \A i \in 1..Len(view.rows) : Len(view.rows[i].targets) <= 3
    /\ Len(view.support) <= 2
    /\ Len(view.resistance) <= 2
    /\ view.reason.chars <= 80
    /\ Chars(view.reason.text) <= 80

LongPayloadShown ==
    LET data == JSONParse(cleaned).v
    IN  /\ view.state = "ok"
        /\ Len(Get(data, "scenarios").kids) > 2
        /\ Len(Get(Get(data, "scenarios"), "0").kids[2].kids) > 3
        /\ Len(Get(Get(data, "levels"), "support").kids) > 2
        /\ Len(Get(Get(data, "levels"), "resistance").kids) > 2
        /\ Chars(Get(data, "reason").a) > 80
        /\ Len(view.rows) = 2 /\ Len(view.support) = 2 /\ view.reason.chars = 80

\* C13: for every raw provider text, the decision shown is one of Long,
\* Short or Wait (in the capitals it is shown in) and the confidence shown is
\* an integer.
ShownInContract ==
    (path = "vision" /\ view.banner # "none") =>
        /\ view.decision \in {<<"LONG">>, <<"SHORT">>, <<"WAIT">>}
        /\ ~view.confidence.nan

\* C14: when the capture of a cycle fails, the cycle sends the status of the
\* failure and ends, with no provider request and no analysis result.
CaptureFailureEndsCycle ==
    [][(last'.op = "capture" /\ last'.err = "capture failed") =>
           /\ out' = <<Status("Capture failed")>>
           /\ \E i \in 1..Len(cycles) :
                  cycles[i].pc = "capture" /\ cycles' = Without(cycles, i)]_vars

CaptureFailed ==
    /\ last.op = "capture" /\ last.err = "capture failed"
    /\ out = <<Status("Capture failed")>>

\* C15: in a cycle the 'capturing' status comes with the cycle's begin, the
\* 'analyzing' status and then the provider request with the end of a capture
\* that succeeded, and the result and then the completion status with the
\* return of the provider call; a result is published in no other step.
EventsInOrder ==
    [][/\ Len(cycles') > Len(cycles) =>
              /\ out' = <<Status("Capturing")>>
              /\ Len(cycles') = Len(cycles) + 1
              /\ cycles'[Len(cycles')].pc = "capture"
              /\ SubSeq(cycles', 1, Len(cycles)) = cycles
       /\ (\E k \in 1..Len(out') : out'[k].ch = "invoke") =>
              /\ Len(out') = 2 /\ out'[1] = Status("Analyzing") /\ out'[2].ch = "invoke"
              /\ last'.op = "capture" /\ last'.ok
              /\ \E i \in 1..Len(cycles) :
                     /\ cycles[i].pc = "capture"
                     /\ cycles' = [cycles EXCEPT ![i] = cycles'[i]]
                     /\ cycles'[i].pc = "invoke"
       /\ (\E k \in 1..Len(out') : out'[k].ch = "analysis-result") =>
              /\ Len(out') = 2 /\ out'[1].ch = "analysis-result"
              /\ out'[2] = Status("Updated")
              /\ last'.op = "provider" /\ last'.ok
              /\ \E i \in 1..Len(cycles) :
                     /\ cycles[i].pc = "invoke"
                     /\ out'[1].image = cycles[i].image
                     /\ cycles' = Without(cycles, i)]_vars

ResultPublished ==
    /\ last.op = "provider" /\ last.ok /\ isAnalyzing
    /\ Len(out) = 2 /\ out[1].ch = "analysis-result" /\ out[2] = Status("Updated")

\* C16: stop() leaves the cycles in flight as they are, and a cycle whose
\* provider call returns while the loop is Idle still publishes its result
\* and its completion status.
StopKeepsCycleInFlight ==
    [][/\ last'.op = "stop" => cycles' = cycles
       /\ (~isAnalyzing /\ last'.op = "provider" /\ last'.ok) =>
              /\ Len(out') = 2
              /\ out'[1].ch = "analysis-result"
              /\ out'[2] = Status("Updated")]_vars

PublishedWhileIdle ==
    /\ last.op = "provider" /\ last.ok /\ ~isAnalyzing
    /\ Len(out) = 2 /\ out[1].ch = "analysis-result"

\* Whether the confidence field v of a payload is absent or non-numeric.
NonNumeric(v) ==
    /\ v.t # "num"
    /\ ~(v.t = "str" /\ TrimStart(v.a) # <<>> /\ Head(TrimStart(v.a)) \in Numerals)

\* C17: on a payload that parsed, an absent decision is shown as Wait, and
\* the confidence shown is an integer, 0 when the field is absent or
\* non-numeric.
FieldDefaultsApplied ==
    (path = "vision" /\ view.state = "ok") =>
        LET data == JSONParse(cleaned).v
        IN  /\ Get(data, "decision") = NoValue => view.decision = <<"WAIT">>
            /\ ~view.confidence.nan
            /\ NonNumeric(Get(data, "confidence")) => view.confidence = Integer(0)

\* C18: on the text-only branch the text returned is one fixed fallback
\* payload, whatever the image and whatever the provider replied.
TextOnlyIgnoresImage ==
    (done /\ path = "text") =>
        /\ cleaned = FallbackText(<<"Text-only">>)
        /\ IsFallbackPayload(JSONParse(cleaned).v)

TextOnlyAnalyzed ==
    /\ done /\ path = "text" /\ imageBase64 = "imgB"
    /\ JSONParse(content).ok
    /\ Get(JSONParse(content).v, "decision") = StrVal(<<"Long">>)

\* C19: at most one recurring timer is scheduled, and it is the one whose
\* handle the loop holds.
OneRecurringSchedule ==
    /\ Cardinality(IntervalTimers) <= 1
    /\ \A t \in IntervalTimers : t.id = analysisInterval

\* C20: a switch that returns a failure leaves the recorded provider id, the
\* service's provider id and the client model as they were.
FailedSwitchChangesNothing ==
    [][(last'.op = "switch" /\ ~last'.ok) =>
           UNCHANGED <<provider, currentProvider, model>>]_vars

\* C21: whenever a cycle sends a request to a provider, the client it uses
\* is the one built for the recorded provider id, with that provider's key.
RequestUsesRecordedProvider ==
    \A k \in 1..Len(out) :
        out[k].ch = "invoke" =>
            /\ out[k].text = currentProvider
            /\ out[k].text = provider
            /\ HasKey(provider)

\* C22: in every Running state a credential is configured for the active
\* provider and a region is set.
RunningKeepsPreconditions ==
    isAnalyzing => (HasKey(provider) /\ captureArea # NoArea)

=============================================================================
